---- MODULE Spec2Model ----
(***************************************************************************)
(* Device/session lifecycle of authentication/views.py:                    *)
(*   authenticate_request, register_device, check_device_status.           *)
(* The Device table is a set of rows; the clock is in seconds.             *)
(***************************************************************************)
EXTENDS Integers, Sequences, FiniteSets, TLC

VARIABLES
    devices,    \* Device.objects: the set of stored rows
    now,        \* timezone.now(), in seconds
    nextKey,    \* the next api_key Device.generate_api_key() hands out
    proc        \* register_device calls in flight: locals and position

vars == <<devices, now, nextKey, proc>>

-----------------------------------------------------------------------------
(* Bounds of the model *)

MaxLogins == 3      \* api keys issued to logins that do not overlap
MaxOverlapLogins == 2   \* api keys issued to logins that may overlap
MaxTwoDeviceLogins == 3 \* api keys issued when two devices share one account

(* Program constants *)

COOLDOWN_SECONDS == 60
DEFAULT_EXPIRY_DAYS == 30

\* timezone.timedelta(days=30), in seconds
DefaultValidity == DEFAULT_EXPIRY_DAYS * 86400

-----------------------------------------------------------------------------
(* Values *)

NONE == -1                     \* Python None in a timestamp field
NoDeviceId == ""               \* a missing / None device id
NoEmail == << >>               \* a missing / empty email
NoKey == 0                     \* a missing x-api-key header

DeviceIds == {"d1", "d2", "d3"}
RawEmails == { <<"a">>, <<" ", "A">>, <<"b">> }
ShortStep == COOLDOWN_SECONDS \div 3
TickSteps == {ShortStep, DefaultValidity}
\* the instants explored: a cooldown window and one instant a validity later
ClockValues ==
    {n * ShortStep : n \in 0..4} \cup {DefaultValidity + 2 * ShortStep}
Procs == {1, 2}

\* existing_device = None / first() = None
NoDevice ==
    [device_id |-> NoDeviceId, email |-> NoEmail, api_key |-> NoKey,
     is_active |-> FALSE, is_logged_out |-> FALSE, logged_out_at |-> NONE,
     superseded_by |-> NoDeviceId, last_login_at |-> NONE,
     expires_at |-> NONE, created_at |-> NONE]

-----------------------------------------------------------------------------
(* email.lower().strip() *)

LowerChar(c) ==
    CASE c = "A" -> "a"
      [] c = "B" -> "b"
      [] OTHER -> c

Lower(s) == [i \in 1..Len(s) |-> LowerChar(s[i])]

RECURSIVE StripLeft(_)
StripLeft(s) ==
    IF s # << >> /\ Head(s) = " " THEN StripLeft(Tail(s)) ELSE s

RECURSIVE StripRight(_)
StripRight(s) ==
    IF s # << >> /\ s[Len(s)] = " "
    THEN StripRight(SubSeq(s, 1, Len(s) - 1))
    ELSE s

Strip(s) == StripRight(StripLeft(s))

Normalize(raw) == Strip(Lower(raw))

\* email__iexact
IExact(stored, email) == Lower(stored) = Lower(email)

-----------------------------------------------------------------------------
(* Store queries and writes *)

SameRow(r, q) == r.device_id = q.device_id /\ r.email = q.email

\* Model.save(): write every field of the in-memory object to its row
SaveRow(store, rec) == {r \in store : ~SameRow(r, rec)} \cup {rec}

\* Device.objects.get(device_id=device_id, email__iexact=email), None if absent
GetByDeviceEmail(store, device_id, email) ==
    LET S == {r \in store : r.device_id = device_id /\ IExact(r.email, email)}
    IN  IF S = {} THEN NoDevice ELSE CHOOSE r \in S : TRUE

\* Device.objects.get(api_key=api_key), None if absent
GetByApiKey(store, api_key) ==
    LET S == {r \in store : r.api_key = api_key}
    IN  IF S = {} THEN NoDevice ELSE CHOOSE r \in S : TRUE

-----------------------------------------------------------------------------
(* authenticate_request: (is_authenticated, device, error_response) *)

AuthError(status, error, code, logged_out_at) ==
    [ok |-> FALSE, device |-> NoDevice, status |-> status, error |-> error,
     code |-> code, logged_out_at |-> logged_out_at]

\* the expiry check moved in front of the logged-out check
authenticate_request_expiry_first(store, api_key, device_id, t) ==
    IF api_key = NoKey \/ device_id = NoDeviceId
    THEN AuthError(401, "Missing authentication headers", "", NONE)
    ELSE LET device == GetByApiKey(store, api_key)
         IN  IF device = NoDevice
             THEN AuthError(401, "Invalid credentials", "", NONE)
             ELSE IF device.device_id # device_id
             THEN AuthError(401, "Invalid credentials", "", NONE)
             ELSE IF device.expires_at < t
             THEN AuthError(403, "Device has expired", "", NONE)
             ELSE IF device.is_logged_out
             THEN AuthError(401, "Session ended - logged in from another device",
                            "LOGGED_OUT_ANOTHER_DEVICE", device.logged_out_at)
             ELSE [ok |-> TRUE, device |-> device, status |-> 200,
                   error |-> "", code |-> "", logged_out_at |-> NONE]

authenticate_request(store, api_key, device_id, t) ==
    IF api_key = NoKey \/ device_id = NoDeviceId
    THEN AuthError(401, "Missing authentication headers", "", NONE)
    ELSE LET device == GetByApiKey(store, api_key)
         IN  IF device = NoDevice
             THEN AuthError(401, "Invalid credentials", "", NONE)
             ELSE IF device.device_id # device_id
             THEN AuthError(401, "Invalid credentials", "", NONE)
             ELSE IF device.is_logged_out
             THEN AuthError(401, "Session ended - logged in from another device",
                            "LOGGED_OUT_ANOTHER_DEVICE", device.logged_out_at)
             ELSE IF device.expires_at < t
             THEN AuthError(403, "Device has expired", "", NONE)
             ELSE [ok |-> TRUE, device |-> device, status |-> 200,
                   error |-> "", code |-> "", logged_out_at |-> NONE]

(* check_device_status *)

check_device_status(store, api_key, device_id, t) ==
    LET auth == authenticate_request(store, api_key, device_id, t)
    IN  IF ~auth.ok
        THEN [status |-> auth.status, error |-> auth.error,
              code |-> auth.code, logged_out_at |-> auth.logged_out_at]
        ELSE [status |-> 200, success |-> TRUE,
              is_active |-> auth.device.is_active,
              email |-> auth.device.email,
              device_id |-> auth.device.device_id,
              expires_at |-> auth.device.expires_at]

-----------------------------------------------------------------------------
(* register_device, step by step *)

\* the cooldown comparison turned around
CooldownCheckTurned(store, existing_device, t) ==
    IF existing_device # NoDevice /\ existing_device.is_logged_out
       /\ existing_device.logged_out_at # NONE
    THEN LET time_since_logout == t - existing_device.logged_out_at
         IN  IF time_since_logout > COOLDOWN_SECONDS
                /\ existing_device.superseded_by # NoDeviceId
             THEN LET S == {r \in store :
                              r.device_id = existing_device.superseded_by}
                  IN  IF S = {} THEN "proceed"
                      ELSE IF Cardinality(S) > 1 THEN "multiple"
                      ELSE IF \E superseding_device \in S :
                                  ~superseding_device.is_logged_out
                      THEN "blocked"
                      ELSE "proceed"
             ELSE "proceed"
    ELSE "proceed"

\* lines 105-129: "proceed", "blocked", or "multiple" when get() at line 111
\* finds more than one row (MultipleObjectsReturned is not caught)
CooldownCheck(store, existing_device, t) ==
    IF existing_device # NoDevice /\ existing_device.is_logged_out
       /\ existing_device.logged_out_at # NONE
    THEN LET time_since_logout == t - existing_device.logged_out_at
         IN  IF time_since_logout < COOLDOWN_SECONDS
                /\ existing_device.superseded_by # NoDeviceId
             THEN LET S == {r \in store :
                              r.device_id = existing_device.superseded_by}
                  IN  IF S = {} THEN "proceed"
                      ELSE IF Cardinality(S) > 1 THEN "multiple"
                      ELSE IF \E superseding_device \in S :
                                  ~superseding_device.is_logged_out
                      THEN "blocked"
                      ELSE "proceed"
             ELSE "proceed"
    ELSE "proceed"

CooldownResponse(existing_device, t) ==
    [status |-> 401,
     error |-> "Session ended - you are logged in on another device",
     code |-> "LOGGED_OUT_ANOTHER_DEVICE",
     logged_out_at |-> existing_device.logged_out_at,
     cooldown_remaining |->
         COOLDOWN_SECONDS - (t - existing_device.logged_out_at)]

\* the ordering turned around: the latest activated row
LastActive(store, email) ==
    LET A == {r \in store : IExact(r.email, email) /\ r.is_active}
    IN  IF A = {} THEN {NoDevice}
        ELSE {r \in A : \A q \in A : r.created_at >= q.created_at}

\* lines 138-141: the rows .order_by('created_at').first() may return;
\* rows with equal created_at come in an order the database chooses
FirstActive(store, email) ==
    LET A == {r \in store : IExact(r.email, email) /\ r.is_active}
    IN  IF A = {} THEN {NoDevice}
        ELSE {r \in A : \A q \in A : r.created_at <= q.created_at}

\* line 148
OtherDevices(store, email, device_id) ==
    {r \in store : IExact(r.email, email) /\ r.device_id # device_id}

\* Device.logout_device(superseded_by_device_id)
logout_device(store, other_device, superseded_by_device_id, t) ==
    {IF SameRow(r, other_device)
     THEN [r EXCEPT !.is_logged_out = TRUE, !.logged_out_at = t,
                    !.superseded_by = superseded_by_device_id]
     ELSE r : r \in store}

\* a loop that names the sibling itself as the superseding device
RECURSIVE LogoutOthersWrongDevice(_, _, _, _)
LogoutOthersWrongDevice(store, others, device_id, t) ==
    IF others = {} THEN store
    ELSE LET other_device == CHOOSE r \in others : TRUE
             rest == others \ {other_device}
         IN  IF ~other_device.is_logged_out
             THEN LogoutOthersWrongDevice(
                      logout_device(store, other_device,
                                    other_device.device_id, t),
                      rest, device_id, t)
             ELSE LogoutOthersWrongDevice(store, rest, device_id, t)

\* a loop that stops after the first sibling it logs out
LogoutOthersFirstOnly(store, others, device_id, t) ==
    LET open == {r \in others : ~r.is_logged_out}
    IN  IF open = {} THEN store
        ELSE logout_device(store, CHOOSE r \in open : TRUE, device_id, t)

\* a loop that counts the siblings and forgets to log them out
LogoutOthersSkipped(store, others, device_id, t) == store

\* lines 149-153, every sibling of the queryset in turn
RECURSIVE LogoutOthers(_, _, _, _)
LogoutOthers(store, others, device_id, t) ==
    IF others = {} THEN store
    ELSE LET other_device == CHOOSE r \in others : TRUE
             rest == others \ {other_device}
         IN  IF ~other_device.is_logged_out
             THEN LogoutOthers(logout_device(store, other_device, device_id, t),
                               rest, device_id, t)
             ELSE LogoutOthers(store, rest, device_id, t)

\* an update that replaces an inherited expiry that has already passed
UpdatedDeviceRenewsPinned(existing_device, api_key, active_device, t) ==
    LET original_expires_at == active_device.expires_at
        should_auto_activate == active_device # NoDevice
    IN  [existing_device EXCEPT
            !.api_key = api_key,
            !.is_logged_out = FALSE,
            !.logged_out_at = NONE,
            !.superseded_by = NoDeviceId,
            !.last_login_at = t,
            !.expires_at =
                IF original_expires_at # NONE /\ original_expires_at >= t
                THEN original_expires_at
                ELSE IF original_expires_at # NONE \/ @ = NONE \/ @ < t
                THEN t + DefaultValidity
                ELSE @,
            !.is_active =
                IF should_auto_activate /\ ~@ THEN TRUE ELSE @]

\* an update that resets the expiry of a never-activated row on every login
UpdatedDeviceAlwaysRenews(existing_device, api_key, active_device, t) ==
    LET original_expires_at == active_device.expires_at
        should_auto_activate == active_device # NoDevice
    IN  [existing_device EXCEPT
            !.api_key = api_key,
            !.is_logged_out = FALSE,
            !.logged_out_at = NONE,
            !.superseded_by = NoDeviceId,
            !.last_login_at = t,
            !.expires_at =
                IF original_expires_at # NONE THEN original_expires_at
                ELSE t + DefaultValidity,
            !.is_active =
                IF should_auto_activate /\ ~@ THEN TRUE ELSE @]

\* an update that keeps the key the row already has
UpdatedDeviceKeepsKey(existing_device, api_key, active_device, t) ==
    LET original_expires_at == active_device.expires_at
        should_auto_activate == active_device # NoDevice
    IN  [existing_device EXCEPT
            !.is_logged_out = FALSE,
            !.logged_out_at = NONE,
            !.superseded_by = NoDeviceId,
            !.last_login_at = t,
            !.expires_at =
                IF original_expires_at # NONE THEN original_expires_at
                ELSE IF @ = NONE \/ @ < t THEN t + DefaultValidity
                ELSE @,
            !.is_active =
                IF should_auto_activate /\ ~@ THEN TRUE ELSE @]

\* lines 156-182: the in-memory existing_device after the assignments
UpdatedDevice(existing_device, api_key, active_device, t) ==
    LET original_expires_at == active_device.expires_at
        should_auto_activate == active_device # NoDevice
    IN  [existing_device EXCEPT
            !.api_key = api_key,
            !.is_logged_out = FALSE,
            !.logged_out_at = NONE,
            !.superseded_by = NoDeviceId,
            !.last_login_at = t,
            !.expires_at =
                IF original_expires_at # NONE THEN original_expires_at
                ELSE IF @ = NONE \/ @ < t THEN t + DefaultValidity
                ELSE @,
            !.is_active =
                IF should_auto_activate /\ ~@ THEN TRUE ELSE @]

\* lines 190-203: Device(...) and the defaults Device.save() fills in
NewDevice(device_id, email, api_key, active_device, t) ==
    LET original_expires_at == active_device.expires_at
        should_auto_activate == active_device # NoDevice
    IN  [device_id |-> device_id, email |-> email, api_key |-> api_key,
         is_active |-> should_auto_activate,
         is_logged_out |-> FALSE, logged_out_at |-> NONE,
         superseded_by |-> NoDeviceId, last_login_at |-> t,
         expires_at |-> IF original_expires_at # NONE
                        THEN original_expires_at
                        ELSE t + DefaultValidity,
         created_at |-> t]

\* an update that also records the device as the superseding one
CrossAccountLogoutSuperseding(store, device_id, email, t) ==
    {IF r.device_id = device_id /\ ~IExact(r.email, email) /\ ~r.is_logged_out
     THEN [r EXCEPT !.is_logged_out = TRUE, !.logged_out_at = t,
                    !.superseded_by = device_id]
     ELSE r : r \in store}

\* the filter on device_id turned into an exclude
CrossAccountLogoutOtherDevices(store, device_id, email, t) ==
    {IF r.device_id # device_id /\ ~IExact(r.email, email) /\ ~r.is_logged_out
     THEN [r EXCEPT !.is_logged_out = TRUE, !.logged_out_at = t]
     ELSE r : r \in store}

\* lines 208-211
CrossAccountLogout(store, device_id, email, t) ==
    {IF r.device_id = device_id /\ ~IExact(r.email, email) /\ ~r.is_logged_out
     THEN [r EXCEPT !.is_logged_out = TRUE, !.logged_out_at = t]
     ELSE r : r \in store}

\* lines 213-224: the fields every success response has
ResponseData(device) ==
    [status |-> 200, success |-> TRUE,
     api_key |-> device.api_key, device_id |-> device.device_id,
     email |-> device.email, is_active |-> device.is_active,
     created_at |-> device.created_at, expires_at |-> device.expires_at]

\* a response that reports a transfer on every login
SuccessResponseAlwaysTransferred(device, logged_out_count, should_auto_activate) ==
    ResponseData(device)
        @@ (IF logged_out_count > 0
            THEN [logged_out_other_devices |-> logged_out_count]
            ELSE << >>)
        @@ [activation_transferred |-> TRUE]

\* lines 213-235: the two optional fields are present only when they apply
SuccessResponse(device, logged_out_count, should_auto_activate) ==
    ResponseData(device)
        @@ (IF logged_out_count > 0
            THEN [logged_out_other_devices |-> logged_out_count]
            ELSE << >>)
        @@ (IF should_auto_activate
            THEN [activation_transferred |-> TRUE]
            ELSE << >>)

\* lines 86-90
BadRequestResponse ==
    [status |-> 400,
     error |-> "Email and device_id are required"]

\* an exception the view does not catch
ServerErrorResponse ==
    [status |-> 500, error |-> "MultipleObjectsReturned"]

\* the cooldown check run after the siblings were logged out
register_device_late_cooldown(store, raw_email, device_id, api_key, active_device, t) ==
    IF raw_email = NoEmail \/ device_id = NoDeviceId
    THEN [store |-> store, response |-> BadRequestResponse]
    ELSE
    LET email == Normalize(raw_email)
        existing_device == GetByDeviceEmail(store, device_id, email)
        other_devices == OtherDevices(store, email, device_id)
        logged_out_count ==
            Cardinality({r \in other_devices : ~r.is_logged_out})
        cooldown == CooldownCheck(store, existing_device, t)
        store1 == LogoutOthers(store, other_devices, device_id, t)
    IN  IF cooldown = "blocked"
        THEN [store |-> store1,
              response |-> CooldownResponse(existing_device, t)]
        ELSE IF cooldown = "multiple"
        THEN [store |-> store1, response |-> ServerErrorResponse]
        ELSE
        LET device == IF existing_device # NoDevice
                      THEN UpdatedDevice(existing_device, api_key,
                                         active_device, t)
                      ELSE NewDevice(device_id, email, api_key,
                                     active_device, t)
            store2 == SaveRow(store1, device)
            store3 == CrossAccountLogout(store2, device_id, email, t)
        IN  [store |-> store3,
             response |-> SuccessResponse(device, logged_out_count,
                                          active_device # NoDevice)]

\* the whole handler run against one store at one time; active_device is
\* the row first() returned
register_device(store, raw_email, device_id, api_key, active_device, t) ==
    IF raw_email = NoEmail \/ device_id = NoDeviceId
    THEN [store |-> store, response |-> BadRequestResponse]
    ELSE
    LET email == Normalize(raw_email)
        existing_device == GetByDeviceEmail(store, device_id, email)
        cooldown == CooldownCheck(store, existing_device, t)
    IN  IF cooldown = "blocked"
        THEN [store |-> store,
              response |-> CooldownResponse(existing_device, t)]
        ELSE IF cooldown = "multiple"
        THEN [store |-> store, response |-> ServerErrorResponse]
        ELSE
        LET other_devices == OtherDevices(store, email, device_id)
            logged_out_count ==
                Cardinality({r \in other_devices : ~r.is_logged_out})
            store1 == LogoutOthers(store, other_devices, device_id, t)
            device == IF existing_device # NoDevice
                      THEN UpdatedDevice(existing_device, api_key,
                                         active_device, t)
                      ELSE NewDevice(device_id, email, api_key,
                                     active_device, t)
            store2 == SaveRow(store1, device)
            store3 == CrossAccountLogout(store2, device_id, email, t)
        IN  [store |-> store3,
             response |-> SuccessResponse(device, logged_out_count,
                                          active_device # NoDevice)]

-----------------------------------------------------------------------------
(* Initial state: an empty Device table, no request in flight *)

IdleProc ==
    [pc |-> "idle", email |-> NoEmail, device_id |-> NoDeviceId,
     existing_device |-> NoDevice, active_device |-> NoDevice,
     other_devices |-> {}, logged_out_count |-> 0]

Init ==
    /\ devices = {}
    /\ now = 0
    /\ nextKey = 1
    /\ proc = [p \in Procs |-> IdleProc]

-----------------------------------------------------------------------------
(* Actions *)

\* Device.generate_api_key(): a secret no row holds or has held
generate_api_key == nextKey

InFlight == {p \in Procs : proc[p].pc # "idle"}

\* time passes; a request is served within one instant of this clock
Tick(step) ==
    /\ InFlight = {}
    /\ now + step \in ClockValues
    /\ now' = now + step
    /\ UNCHANGED <<devices, nextKey, proc>>

\* the administrator approves a device row
Approve(r) ==
    /\ r \in devices
    /\ ~r.is_active
    /\ devices' = SaveRow(devices, [r EXCEPT !.is_active = TRUE])
    /\ UNCHANGED <<now, nextKey, proc>>

\* POST /api/v1/auth/register, served without overlapping another request;
\* two such requests never share an instant of the clock
Register(raw_email, device_id) ==
    /\ \A p \in Procs : proc[p].pc = "idle"
    /\ \A r \in devices : r.last_login_at # now
    /\ \E active_device \in FirstActive(devices, Normalize(raw_email)) :
          LET out == register_device(devices, raw_email, device_id,
                                     generate_api_key, active_device, now)
          IN  /\ out.response.status = 200 => nextKey <= MaxLogins
              /\ devices' = out.store
              /\ nextKey' = IF out.response.status = 200
                            THEN nextKey + 1 ELSE nextKey
    /\ UNCHANGED <<now, proc>>

\* a status check that stamps the row it authenticated
CheckStatusStamping(api_key, device_id) ==
    /\ LET auth == authenticate_request(devices, api_key, device_id, now)
       IN  devices' = IF auth.ok
                      THEN SaveRow(devices,
                                   [auth.device EXCEPT !.last_login_at = now])
                      ELSE devices
    /\ UNCHANGED <<now, nextKey, proc>>

\* GET /api/v1/auth/check-status, the request authenticate_request guards
CheckStatus(api_key, device_id) ==
    /\ check_device_status(devices, api_key, device_id, now).status
          \in {200, 401, 403}
    /\ UNCHANGED <<devices, now, nextKey, proc>>

\* the status requests sent: without credentials, with a key no row holds,
\* with the key of a row from its own device and from device d1
StatusInputs ==
    {<<NoKey, NoDeviceId>>, <<nextKey, "d1">>}
        \cup {<<r.api_key, r.device_id>> : r \in devices}
        \cup {<<r.api_key, "d1">> : r \in devices}
DeviceInputs == DeviceIds \cup {NoDeviceId}
EmailInputs == RawEmails \cup {NoEmail}
\* the devices whose logins overlap
OverlapDeviceInputs == {"d1", "d2", NoDeviceId}

Next ==
    \/ \E step \in TickSteps : Tick(step)
    \/ \E r \in devices : Approve(r)
    \/ \E raw_email \in EmailInputs, device_id \in DeviceInputs :
          Register(raw_email, device_id)
    \/ \E input \in StatusInputs : CheckStatus(input[1], input[2])

Spec == Init /\ [][Next]_vars

-----------------------------------------------------------------------------
(* register_device with its store reads and writes as separate steps, so  *)
(* that the calls of several workers interleave                            *)

Finish(p) == proc' = [proc EXCEPT ![p] = IdleProc]

\* lines 83-102 and 130-131: validation, then the lookup of existing_device
StartRegisterWithin(p, raw_email, device_id, limit) ==
    /\ proc[p].pc = "idle"
    /\ \A q \in Procs : q < p => proc[q].pc # "idle"
    /\ nextKey + Cardinality(InFlight) <= limit
    /\ IF raw_email = NoEmail \/ device_id = NoDeviceId
       THEN UNCHANGED proc
       ELSE LET email == Normalize(raw_email)
            IN  proc' = [proc EXCEPT ![p] =
                    [IdleProc EXCEPT
                        !.pc = "cooldown", !.email = email,
                        !.device_id = device_id,
                        !.existing_device =
                            GetByDeviceEmail(devices, device_id, email)]]
    /\ UNCHANGED <<devices, now, nextKey>>

StartRegister(p, raw_email, device_id) ==
    StartRegisterWithin(p, raw_email, device_id, MaxOverlapLogins)

\* lines 104-129: the cooldown check with its lookup of the superseding row
Cooldown(p) ==
    /\ proc[p].pc = "cooldown"
    /\ IF CooldownCheck(devices, proc[p].existing_device, now) = "proceed"
       THEN proc' = [proc EXCEPT ![p].pc = "active"]
       ELSE Finish(p)
    /\ UNCHANGED <<devices, now, nextKey>>

\* lines 138-145
ReadActive(p) ==
    /\ proc[p].pc = "active"
    /\ \E active_device \in FirstActive(devices, proc[p].email) :
          proc' = [proc EXCEPT ![p].pc = "others",
                               ![p].active_device = active_device]
    /\ UNCHANGED <<devices, now, nextKey>>

\* lines 148-151: the queryset is read once; the rows of it that are not
\* logged out are the ones the loop writes
ReadOthers(p) ==
    /\ proc[p].pc = "others"
    /\ LET other_devices ==
               OtherDevices(devices, proc[p].email, proc[p].device_id)
       IN  proc' = [proc EXCEPT
                ![p].pc = "logout",
                ![p].other_devices =
                    {r \in other_devices : ~r.is_logged_out}]
    /\ UNCHANGED <<devices, now, nextKey>>

\* lines 152-153: one iteration of the loop
LogoutOther(p) ==
    /\ proc[p].pc = "logout"
    /\ \E other_device \in proc[p].other_devices :
          /\ devices' = logout_device(devices, other_device,
                                      proc[p].device_id, now)
          /\ proc' = [proc EXCEPT
                ![p].other_devices = @ \ {other_device},
                ![p].logged_out_count = @ + 1]
    /\ UNCHANGED <<now, nextKey>>

\* lines 155-204: device.save() of the updated or the new row; the insert of
\* a (device_id, email) pair that exists by now fails on the unique constraint
Upsert(p) ==
    /\ proc[p].pc = "logout"
    /\ proc[p].other_devices = {}
    /\ IF proc[p].existing_device # NoDevice
       THEN /\ devices' = SaveRow(devices,
                              UpdatedDevice(proc[p].existing_device,
                                            generate_api_key,
                                            proc[p].active_device, now))
            /\ nextKey' = nextKey + 1
            /\ proc' = [proc EXCEPT ![p].pc = "cross"]
       ELSE IF GetByDeviceEmail(devices, proc[p].device_id, proc[p].email)
                  # NoDevice
       THEN /\ Finish(p)
            /\ nextKey' = nextKey + 1
            /\ UNCHANGED devices
       ELSE /\ devices' = SaveRow(devices,
                              NewDevice(proc[p].device_id, proc[p].email,
                                        generate_api_key,
                                        proc[p].active_device, now))
            /\ nextKey' = nextKey + 1
            /\ proc' = [proc EXCEPT ![p].pc = "cross"]
    /\ UNCHANGED now

\* lines 206-235: the cross-account update, then the response
CrossLogout(p) ==
    /\ proc[p].pc = "cross"
    /\ devices' = CrossAccountLogout(devices, proc[p].device_id,
                                     proc[p].email, now)
    /\ Finish(p)
    /\ UNCHANGED <<now, nextKey>>

NextConcurrent ==
    \/ \E step \in TickSteps : Tick(step)
    \/ \E r \in devices : Approve(r)
    \/ \E p \in Procs, raw_email \in EmailInputs,
          device_id \in OverlapDeviceInputs :
          StartRegister(p, raw_email, device_id)
    \/ \E p \in Procs : Cooldown(p)
    \/ \E p \in Procs : ReadActive(p)
    \/ \E p \in Procs : ReadOthers(p)
    \/ \E p \in Procs : LogoutOther(p)
    \/ \E p \in Procs : Upsert(p)
    \/ \E p \in Procs : CrossLogout(p)
    \/ \E input \in StatusInputs : CheckStatus(input[1], input[2])

SpecConcurrent == Init /\ [][NextConcurrent]_vars

\* overlapping logins followed by logins that overlap nothing; approvals and
\* status calls, which write no is_logged_out, are left to SpecConcurrent
NextConverge ==
    \/ \E step \in TickSteps : Tick(step)
    \/ \E p \in Procs, raw_email \in EmailInputs,
          device_id \in OverlapDeviceInputs :
          StartRegister(p, raw_email, device_id)
    \/ \E p \in Procs : Cooldown(p)
    \/ \E p \in Procs : ReadActive(p)
    \/ \E p \in Procs : ReadOthers(p)
    \/ \E p \in Procs : LogoutOther(p)
    \/ \E p \in Procs : Upsert(p)
    \/ \E p \in Procs : CrossLogout(p)
    \/ \E raw_email \in EmailInputs, device_id \in DeviceInputs :
          Register(raw_email, device_id)

SpecConverge == Init /\ [][NextConverge]_vars

\* two devices and one account, the email spelled in two ways
TwoDevices == {"d1", "d2"}
TwoDeviceEmails == { <<"a">>, <<" ", "A">> }

\* overlapping logins of two devices to one account, with polling
NextTwoDevices ==
    \/ \E step \in TickSteps : Tick(step)
    \/ \E r \in devices : Approve(r)
    \/ \E p \in Procs, raw_email \in TwoDeviceEmails,
          device_id \in TwoDevices :
          StartRegisterWithin(p, raw_email, device_id, MaxTwoDeviceLogins)
    \/ \E p \in Procs : Cooldown(p)
    \/ \E p \in Procs : ReadActive(p)
    \/ \E p \in Procs : ReadOthers(p)
    \/ \E p \in Procs : LogoutOther(p)
    \/ \E p \in Procs : Upsert(p)
    \/ \E p \in Procs : CrossLogout(p)
    \/ \E input \in StatusInputs : CheckStatus(input[1], input[2])

SpecTwoDevices == Init /\ [][NextTwoDevices]_vars

-----------------------------------------------------------------------------
(* Properties *)

Accounts == {Normalize(raw_email) : raw_email \in RawEmails}

\* the rows of an account that hold a session
Sessions(email) == {r \in devices : r.email = email /\ ~r.is_logged_out}

\* the rows of a device that hold a session
DeviceSessions(device_id) ==
    {r \in devices : r.device_id = device_id /\ ~r.is_logged_out}

\* C1: when logins run one at a time, interleaved with approvals and status
\* calls, every account has at most one row with is_logged_out = FALSE after
\* each login.
C1_SingleSessionPerAccount ==
    \A email \in Accounts : Cardinality(Sessions(email)) <= 1

\* a login has superseded a sibling: one row holds the session, the other
\* was logged out by it
C1_Witness ==
    \E r \in devices, q \in devices :
        /\ r.email = q.email
        /\ ~r.is_logged_out
        /\ q.is_logged_out /\ q.superseded_by = r.device_id

\* C2: with logins interleaved step by step, in every state where no login
\* for an account is in flight, at most one row of the account has
\* is_logged_out = FALSE.
C2_SingleSessionWhenQuiescent ==
    \A email \in Accounts :
        (\A p \in InFlight : proc[p].email # email)
            => Cardinality(Sessions(email)) <= 1

\* the superseded row r is in its cooldown and the row that superseded it
\* still holds the session
SupersederActive(r) ==
    \E q \in devices :
        /\ q.device_id = r.superseded_by
        /\ q.email = r.email
        /\ ~q.is_logged_out

InCooldown(r) ==
    /\ r.is_logged_out
    /\ r.superseded_by # NoDeviceId
    /\ now - r.logged_out_at < COOLDOWN_SECONDS
    /\ SupersederActive(r)

\* C3: a login by device D for account A is rejected, and issues no api_key,
\* whenever D's row for A is logged out with superseded_by = D2, fewer than
\* 60 seconds have passed since logged_out_at, and D2's row for A is not
\* logged out.
C3_CooldownRejects ==
    \A r \in devices, raw_email \in RawEmails :
        (Normalize(raw_email) = r.email /\ InCooldown(r))
            => \A active_device \in FirstActive(devices, r.email) :
                  LET out == register_device(devices, raw_email, r.device_id,
                                             nextKey, active_device, now)
                  IN  /\ out.response.status # 200
                      /\ out.store = devices

\* a superseded row inside its cooldown, some seconds after the logout
C3_Witness ==
    \E r \in devices : InCooldown(r) /\ now > r.logged_out_at

\* C4: a superseded device's login for the same account succeeds once 60
\* seconds have passed since its logout, and before that as soon as the
\* superseding device's session for the account is logged out or absent,
\* whichever way that session ended.
C4_ReloginSucceeds ==
    \A r \in devices, raw_email \in RawEmails :
        (/\ Normalize(raw_email) = r.email
         /\ r.is_logged_out
         /\ r.superseded_by # NoDeviceId
         /\ \/ now - r.logged_out_at >= COOLDOWN_SECONDS
            \/ ~SupersederActive(r))
            => \A active_device \in FirstActive(devices, r.email) :
                  register_device(devices, raw_email, r.device_id, nextKey,
                                  active_device, now).response.status = 200

\* the row a successful login has just written: the one holding the key
\* that was handed out in this step
LoginStep == nextKey' = nextKey + 1
Target == CHOOSE r \in devices' : r.api_key = nextKey

\* the activated rows of an account, and the earliest created of them
Activated(email) == {r \in devices : r.email = email /\ r.is_active}
EarliestActivated(email) ==
    {r \in Activated(email) :
        \A q \in Activated(email) : r.created_at <= q.created_at}

\* C5: a login on an account that already has a row with is_active = TRUE
\* leaves its target row, new or updated, with is_active = TRUE and with the
\* expires_at of the earliest-created activated row of the account.
C5_InheritsActivation ==
    [][(LoginStep /\ Activated(Target.email) # {})
          => /\ Target.is_active
             /\ \E r \in EarliestActivated(Target.email) :
                   Target.expires_at = r.expires_at]_vars

\* a row created after the account's earliest activated row carries that
\* row's expiry instead of its own default
C5_Witness ==
    \E r \in devices, q \in devices :
        /\ r.email = q.email
        /\ r.is_active /\ q.is_active
        /\ r.created_at < q.created_at
        /\ q.expires_at = r.expires_at
        /\ q.expires_at # q.created_at + DefaultValidity

\* the row of a store that has the key (device_id, email) of r
RowOf(store, r) == CHOOSE q \in store : SameRow(q, r)

\* authenticate_request answers 401 with the logged-out code
Superseded(store, r, t) ==
    LET auth == authenticate_request(store, r.api_key, r.device_id, t)
    IN  /\ ~auth.ok
        /\ auth.status = 401
        /\ auth.code = "LOGGED_OUT_ANOTHER_DEVICE"
        /\ auth.logged_out_at = r.logged_out_at

\* C6: when D2 logs in for account A while D1 holds a session for A, D1's
\* row ends logged out, with logged_out_at set and superseded_by = D2, and
\* authenticate with D1's key and device id answers superseded from then on,
\* until D1 logs in again.
C6_SupersedesSibling ==
    [][/\ LoginStep =>
            \A r \in Sessions(Target.email) :
                r.device_id # Target.device_id =>
                    LET after == RowOf(devices', r)
                    IN  /\ after.is_logged_out
                        /\ after.logged_out_at = now
                        /\ after.logged_out_at # NONE
                        /\ after.superseded_by = Target.device_id
                        /\ after.api_key = r.api_key
                        /\ Superseded(devices', after, now')
       /\ \A r \in devices :
            (/\ r.is_logged_out
             /\ r.superseded_by # NoDeviceId
             /\ ~(LoginStep /\ SameRow(Target, r)))
                => LET after == RowOf(devices', r)
                   IN  /\ after.is_logged_out
                       /\ after.superseded_by = r.superseded_by
                       /\ after.api_key = r.api_key
                       /\ Superseded(devices', after, now')]_vars

\* a superseded row whose old key is refused a cooldown after the logout,
\* while the superseding device still holds the session
C6_Witness ==
    \E r \in devices :
        /\ r.is_logged_out
        /\ SupersederActive(r)
        /\ now - r.logged_out_at >= COOLDOWN_SECONDS
        /\ Superseded(devices, r, now)

\* C7: when logins run one at a time, each device_id has at most one row
\* with is_logged_out = FALSE across all accounts: a login of device D under
\* account B logs out the rows of D under other accounts, and authenticate
\* with the key of such a row answers superseded.
C7_SingleSessionPerDevice ==
    /\ [](\A device_id \in DeviceIds :
              Cardinality(DeviceSessions(device_id)) <= 1)
    /\ [][LoginStep =>
            \A r \in DeviceSessions(Target.device_id) :
                r.email # Target.email =>
                    LET after == RowOf(devices', r)
                    IN  /\ after.is_logged_out
                        /\ after.logged_out_at = now
                        /\ after.api_key = r.api_key
                        /\ Superseded(devices', after, now')]_vars

\* a device with a session under one account and a row under another
\* account that its own login logged out
C7_Witness ==
    \E r \in devices, q \in devices :
        /\ r.device_id = q.device_id
        /\ r.email # q.email
        /\ ~r.is_logged_out
        /\ q.is_logged_out /\ q.superseded_by = NoDeviceId
        /\ q.logged_out_at = r.last_login_at
        /\ Superseded(devices, q, now)

\* the rows holding api_key under device_id
Matching(api_key, device_id) ==
    {r \in devices : r.api_key = api_key /\ r.device_id = device_id}

\* C8: authenticate gives exactly one outcome, decided in this order:
\* missing credentials; invalid credentials when no row has the key or its
\* device id differs; superseded, with logged_out_at, when the row is logged
\* out, expired or not; expired when expires_at has passed; authenticated,
\* with the row, otherwise.
C8_AuthenticateOutcome ==
    \A api_key \in 0..nextKey, device_id \in DeviceInputs :
        LET auth == authenticate_request(devices, api_key, device_id, now)
            missing == api_key = NoKey \/ device_id = NoDeviceId
            M == Matching(api_key, device_id)
        IN  IF missing
            THEN auth = AuthError(401, "Missing authentication headers",
                                  "", NONE)
            ELSE IF M = {}
            THEN auth = AuthError(401, "Invalid credentials", "", NONE)
            ELSE \E r \in M :
                   IF r.is_logged_out
                   THEN /\ ~auth.ok /\ auth.status = 401
                        /\ auth.code = "LOGGED_OUT_ANOTHER_DEVICE"
                        /\ auth.logged_out_at = r.logged_out_at
                   ELSE IF r.expires_at < now
                   THEN auth = AuthError(403, "Device has expired", "", NONE)
                   ELSE auth.ok /\ auth.status = 200 /\ auth.device = r

\* a row that is logged out and expired at once, where the order decides
C8_Witness ==
    \E r \in devices :
        /\ r.is_logged_out
        /\ r.expires_at < now
        /\ authenticate_request(devices, r.api_key, r.device_id, now).status
              = 401

\* C9: authenticate and status change no row, whatever the input and the
\* outcome and wherever they fall among the steps of concurrent logins; and
\* status answers with the error of authenticate for the same input and
\* state.
C9_StatusReadsOnly ==
    /\ [][devices' # devices =>
            /\ \A input \in StatusInputs : ~CheckStatus(input[1], input[2])
            /\ \/ proc' # proc
               \/ nextKey' # nextKey
               \/ \E r \in devices : Approve(r)]_vars
    /\ [](\A api_key \in 0..nextKey, device_id \in DeviceInputs :
            LET auth == authenticate_request(devices, api_key, device_id, now)
                reply == check_device_status(devices, api_key, device_id, now)
            IN  IF auth.ok
                THEN /\ reply.status = 200
                     /\ reply.device_id = auth.device.device_id
                     /\ reply.email = auth.device.email
                     /\ reply.is_active = auth.device.is_active
                     /\ reply.expires_at = auth.device.expires_at
                ELSE /\ reply.status = auth.status
                     /\ reply.error = auth.error
                     /\ reply.code = auth.code
                     /\ reply.logged_out_at = auth.logged_out_at)

\* a login stands between its writes while one stored key is refused as
\* superseded and another authenticates
C9_Witness ==
    \E p \in InFlight, r \in devices, q \in devices :
        /\ proc[p].pc = "cross"
        /\ Superseded(devices, r, now)
        /\ now > r.last_login_at
        /\ authenticate_request(devices, q.api_key, q.device_id, now).ok

\* C10: a login rejected for a missing email or device id, or by the
\* cooldown check, changes no row: no sibling is logged out, no api_key is
\* rotated, no row is created.
C10_RejectionChangesNothing ==
    \A raw_email \in EmailInputs, device_id \in DeviceInputs :
        \A active_device \in FirstActive(devices, Normalize(raw_email)) :
            LET out == register_device(devices, raw_email, device_id,
                                       nextKey, active_device, now)
            IN  /\ (raw_email = NoEmail \/ device_id = NoDeviceId)
                      => out.response.status = 400
                /\ out.response.status # 200 => out.store = devices

\* a login the cooldown rejects while a sibling holds the session the login
\* would otherwise have ended
C10_Witness ==
    \E r \in devices :
        /\ InCooldown(r)
        /\ Sessions(r.email) # {}
        /\ \A active_device \in FirstActive(devices, r.email) :
              LET out == register_device(devices, r.email, r.device_id,
                                         nextKey, active_device, now)
              IN  /\ out.response.status = 401
                  /\ out.response.cooldown_remaining > 0

\* C11: no two rows hold the same api_key; every key a row holds or has held
\* was issued before the next one, so the key a successful login gives its
\* target row was never held by any row; and the key the row held before the
\* login is refused as invalid credentials afterwards.
C11_FreshApiKey ==
    /\ [](\A r \in devices, q \in devices :
              /\ r.api_key = q.api_key => r = q
              /\ r.api_key \in 1..(nextKey - 1))
    /\ [][/\ nextKey' >= nextKey
          /\ LoginStep =>
                \E r \in devices' :
                    /\ r.api_key = nextKey
                    /\ \A q \in devices :
                          SameRow(q, r) =>
                              authenticate_request(devices', q.api_key,
                                                   q.device_id, now')
                                  = AuthError(401, "Invalid credentials",
                                              "", NONE)]_vars

\* a row that logged in again after its creation, with an earlier key that
\* no row holds any more
C11_Witness ==
    \E r \in devices, k \in 1..(nextKey - 1) :
        /\ r.last_login_at > r.created_at
        /\ k < r.api_key
        /\ \A q \in devices : q.api_key # k
        /\ authenticate_request(devices, k, r.device_id, now).error
              = "Invalid credentials"

\* a login served whole, overlapping no other login
WholeLoginStep == LoginStep /\ InFlight = {} /\ proc' = proc

\* C12: whatever overlapping logins left behind, once they have completed
\* and one further login for the account has run to completion without
\* overlapping another, at most one row of the account has
\* is_logged_out = FALSE.
C12_ConvergesAfterOneLogin ==
    [][WholeLoginStep =>
          \A r \in devices', q \in devices' :
              (/\ r.email = Target.email /\ q.email = Target.email
               /\ ~r.is_logged_out /\ ~q.is_logged_out) => r = q]_vars

\* two devices logged in to one account at the same instant and both kept
\* their session until a third device's login logged both of them out
C12_Witness ==
    \E r \in devices, q \in devices, s \in devices :
        /\ r.email = q.email /\ q.email = s.email
        /\ r.device_id # q.device_id
        /\ r.last_login_at = q.last_login_at
        /\ ~s.is_logged_out
        /\ s.last_login_at > r.last_login_at
        /\ r.is_logged_out /\ r.superseded_by = s.device_id
        /\ q.is_logged_out /\ q.superseded_by = s.device_id
        /\ r.logged_out_at = s.last_login_at
        /\ q.logged_out_at = s.last_login_at

\* the step in which the login of worker p writes its target row
UpsertStep(p) == proc[p].pc = "logout" /\ proc'[p].pc # "logout"

\* C13: when two logins for a (device_id, email) pair that has no row run
\* concurrently and both find no row, one row exists for the pair and both
\* logins succeed: the one that lost the insert is completed as an update,
\* so after its write the pair's row holds the key issued to it.
C13_DuplicateRaceResolved ==
    /\ [](\A r \in devices, q \in devices : SameRow(r, q) => r = q)
    /\ [][\A p \in Procs :
            (UpsertStep(p) /\ proc[p].existing_device = NoDevice) =>
                \E r \in devices' :
                    /\ r.device_id = proc[p].device_id
                    /\ r.email = proc[p].email
                    /\ r.api_key = nextKey
                    /\ proc'[p].pc = "cross"]_vars

\* the expiry a login would pin on the rows of an activated account
PinnedExpiry(email) == {r.expires_at : r \in EarliestActivated(email)}

\* C14: once an account has an activated row, the expiry that logins assign
\* to its rows is fixed at the value the first-activated row had when it was
\* activated: every login of the account leaves its target row with that
\* value, and no login and no approval of another row changes or lowers it.
C14_ExpiryFixedOnceActivated ==
    [][\A email \in Accounts :
          Activated(email) # {} =>
              /\ PinnedExpiry(email)' = PinnedExpiry(email)
              /\ (LoginStep /\ Target.email = email)
                    => Target.expires_at \in PinnedExpiry(email)]_vars

\* C15: with two devices on one account, two consecutive supersessions are
\* at least 60 seconds apart under every schedule of logins and polling:
\* when a login of device D logs out the session of the other device while
\* D's own row still records that the other device superseded it, 60 seconds
\* or more have passed since that earlier supersession.
C15_SupersessionsApart ==
    [][\A r \in devices :
          LET after == RowOf(devices', r)
          IN  (/\ ~r.is_logged_out
               /\ after.is_logged_out
               /\ after.superseded_by # NoDeviceId) =>
                  \A q \in devices :
                      (/\ q.email = r.email
                       /\ q.device_id = after.superseded_by
                       /\ q.is_logged_out
                       /\ q.superseded_by = r.device_id) =>
                          now - q.logged_out_at >= COOLDOWN_SECONDS]_vars

\* C16: no step of a login changes a row's is_active from TRUE to FALSE, in
\* every interleaving of logins with approvals: a row that an approval has
\* activated is still activated after a login that had read the row before
\* the approval.
C16_ActivationNeverCleared ==
    [][\A r \in devices : r.is_active => RowOf(devices', r).is_active]_vars

\* C17: a login on an account with no activated row: a new target row gets
\* is_active = FALSE and expires 30 days after its creation; an existing
\* target row whose expires_at is absent or has passed gets now + 30 days;
\* an existing target row whose expires_at has not passed keeps it.
C17_ExpiryWithoutActivation ==
    [][(LoginStep /\ Activated(Target.email) = {}) =>
          LET old == {r \in devices : SameRow(r, Target)}
          IN  /\ ~Target.is_active
              /\ old = {} =>
                    /\ Target.created_at = now
                    /\ Target.expires_at = now + DefaultValidity
              /\ \A r \in old :
                    /\ Target.created_at = r.created_at
                    /\ Target.expires_at =
                          IF r.expires_at = NONE \/ r.expires_at < now
                          THEN now + DefaultValidity
                          ELSE r.expires_at]_vars

\* the only row of the table, never activated, has logged in three times:
\* created, logged in again before its expiry, and logged in after its
\* expiry, which gave it 30 days from that login
C17_Witness ==
    \E r \in devices :
        /\ devices = {r}
        /\ ~r.is_active
        /\ r.api_key >= 3
        /\ r.last_login_at > r.created_at + DefaultValidity
        /\ r.expires_at = r.last_login_at + DefaultValidity

Expired == AuthError(403, "Device has expired", "", NONE)

\* a row that holds a session whose expires_at has passed is answered
\* expired, and stays so until its device logs in again or it is logged out
ExpiredUntilLogin ==
    /\ [](\A r \in devices :
              (~r.is_logged_out /\ r.expires_at < now) =>
                  authenticate_request(devices, r.api_key, r.device_id, now)
                      = Expired)
    /\ [][\A r \in devices :
            (~r.is_logged_out /\ r.expires_at < now) =>
                LET after == RowOf(devices', r)
                IN  \/ LoginStep /\ SameRow(Target, r)
                    \/ after.is_logged_out
                    \/ /\ after.api_key = r.api_key
                       /\ authenticate_request(devices', r.api_key,
                                               r.device_id, now') = Expired]_vars

\* C18, as stated: an expired session is answered expired until its device
\* logs in again, and after any successful login authenticate with the key
\* of that login and the same device id answers authenticated, for activated
\* and never-activated accounts alike.
C18_ReloginRestoresValidity ==
    /\ ExpiredUntilLogin
    /\ [][LoginStep =>
            authenticate_request(devices', nextKey, Target.device_id,
                                 now').ok]_vars

\* C18, amended: an expired session is answered expired until its device
\* logs in again or is logged out.  A successful login on an account with
\* no activated row is authenticated with its new key.  A successful login
\* on an account with an activated row carries the account's pinned expiry
\* and is authenticated only while that expiry has not passed; after it the
\* new key is answered expired at once.
C18_ReloginValidity ==
    /\ ExpiredUntilLogin
    /\ [][LoginStep =>
            LET auth == authenticate_request(devices', nextKey,
                                             Target.device_id, now')
            IN  /\ Activated(Target.email) = {} => auth.ok
                /\ Activated(Target.email) # {} =>
                      /\ Target.expires_at \in PinnedExpiry(Target.email)
                      /\ auth.ok <=> Target.expires_at >= now
                      /\ ~auth.ok => auth = Expired]_vars

\* a row of an activated account that logged in after the account's expiry
\* had passed: it holds the session and its new key is answered expired
C18_Witness ==
    \E r \in devices :
        /\ r.is_active /\ ~r.is_logged_out
        /\ r.last_login_at > r.expires_at
        /\ r.last_login_at = now
        /\ authenticate_request(devices, r.api_key, r.device_id, now)
              = Expired

\* the response reports an inherited activation
Transferred(response) ==
    /\ "activation_transferred" \in DOMAIN response
    /\ response.activation_transferred

\* C19: the activation_transferred flag of a successful login is present and
\* true exactly when the account had an activated row, whose activation and
\* pinned expiry the login put on the target row; it is absent when the
\* account has no activated row, as in the first login of a new account.
C19_ActivationTransferredFlag ==
    [][LoginStep =>
          \A raw_email \in RawEmails,
             active_device \in FirstActive(devices, Target.email) :
              LET out == register_device(devices, raw_email, Target.device_id,
                                         nextKey, active_device, now)
                  response == out.response
              IN  (Normalize(raw_email) = Target.email /\ out.store = devices')
                    => /\ response.status = 200
                       /\ response.api_key = Target.api_key
                       /\ Transferred(response) <=> Activated(Target.email) # {}
                       /\ Transferred(response) =>
                             /\ response.is_active /\ Target.is_active
                             /\ response.expires_at = Target.expires_at
                             /\ Target.expires_at
                                   \in PinnedExpiry(Target.email)
                       /\ ~Transferred(response) =>
                             /\ "activation_transferred"
                                   \notin DOMAIN response
                             /\ ~response.is_active]_vars

\* one account has an activated row and a login to it from a new device
\* reports the transfer, while a login to another account reports none
C19_Witness ==
    \E r \in devices, q \in devices :
        /\ r.is_active
        /\ Activated(q.email) = {}
        /\ Transferred(register_device(devices, r.email, "d3", nextKey,
                                       r, now).response)
        /\ LET response == register_device(devices, q.email, "d3", nextKey,
                                           NoDevice, now).response
           IN  response.status = 200 /\ ~Transferred(response)

\* a row logged out without a superseding device: by its own device's login
\* under another account
LoggedOutCrossAccount(r) == r.is_logged_out /\ r.superseded_by = NoDeviceId

\* C20: a row logged out by its own device's login under another account
\* has no superseded_by and gets none while it stays logged out, so a login
\* of that device under the row's account passes the cooldown check and
\* succeeds, also within 60 seconds of the logout and also when another
\* device holds the session of that account by then.
C20_CrossAccountLogoutNoCooldown ==
    /\ [][/\ LoginStep =>
                \A r \in DeviceSessions(Target.device_id) :
                    r.email # Target.email =>
                        LoggedOutCrossAccount(RowOf(devices', r))
          /\ \A r \in devices :
                LoggedOutCrossAccount(r) =>
                    LET after == RowOf(devices', r)
                    IN  ~after.is_logged_out \/ LoggedOutCrossAccount(after)]_vars
    /\ [](\A r \in devices, raw_email \in RawEmails :
              (LoggedOutCrossAccount(r) /\ Normalize(raw_email) = r.email) =>
                  /\ CooldownCheck(devices, r, now) = "proceed"
                  /\ \A active_device \in FirstActive(devices, r.email) :
                        register_device(devices, raw_email, r.device_id,
                                        nextKey, active_device,
                                        now).response.status = 200)

\* device d logged in under another account less than 60 seconds ago, which
\* logged out its row r; by now another device holds the session of r's
\* account, and a login of d under that account succeeds
C20_Witness ==
    \E r \in devices, q \in devices :
        /\ LoggedOutCrossAccount(r)
        /\ now - r.logged_out_at < COOLDOWN_SECONDS
        /\ q.email = r.email /\ q.device_id # r.device_id
        /\ ~q.is_logged_out
        /\ q.last_login_at > r.logged_out_at
        /\ \A active_device \in FirstActive(devices, r.email) :
              register_device(devices, r.email, r.device_id, nextKey,
                              active_device, now).response.status = 200

====
